---------------------------- MODULE Spec2Model ----------------------------
(***************************************************************************)
(* Model of torch/csrc/distributed/rpc/agent_utils.cpp: the store-based    *)
(* name registries (collectNames, collectCurrentNames), the counting       *)
(* barrier (syncCallCount) and its key derivation (getNextKeyIds).         *)
(*                                                                         *)
(* Strings and byte vectors are sequences of one-character strings, so     *)
(* that formatting (fmt::format, c10::to_string), parsing (std::stoi,      *)
(* splitString) and key derivation are computed and not assumed.           *)
(* The store is a function from the keys that exist to their values.       *)
(***************************************************************************)
EXTENDS Integers, Sequences, FiniteSets, TLC

(***************************************************************************)
(* Bounds of the model.                                                    *)
(***************************************************************************)
\* number of processes that may take part in one barrier epoch
NumProcs == 3
\* number of processes that call the barrier repeatedly
NumRoundProcs == 2
\* number of syncCallCount calls each of them makes
MaxCalls == 2
\* a call contributes 0..MaxActive active calls
MaxActive == 1
\* number of workers of the fixed-size registry
NumWorkers == 3
\* number of workers that join through the dynamic registry
NumJoiners == 2
\* number of worker names to choose from
NumNames == 3
\* number of worker ids the dynamic joiners choose from
NumIds == 2
\* number of threads of one process that call getNextKeyIds unserialized
NumThreads == 2
\* the key triples of the epochs 1..MaxEpoch are compared with each other
MaxEpoch == 11

Procs == 1..NumProcs

\* the workers of either registry
Slots == 1..(IF NumWorkers > NumJoiners THEN NumWorkers ELSE NumJoiners)

(***************************************************************************)
(* Text: decimal formatting and parsing.                                   *)
(***************************************************************************)
Digits == <<"0", "1", "2", "3", "4", "5", "6", "7", "8", "9">>

IsDigit(c) == \E i \in 1..10 : Digits[i] = c

DigitVal(c) == (CHOOSE i \in 1..10 : Digits[i] = c) - 1

\* largest value of int: std::stoi throws std::out_of_range beyond it
IntMax == 2147483647

RECURSIVE NatToString(_)
NatToString(n) ==
    IF n < 10 THEN <<Digits[n + 1]>>
    ELSE NatToString(n \div 10) \o <<Digits[(n % 10) + 1]>>

\* c10::to_string(int) and fmt::format("{}", int): decimal, '-' for negatives
to_string(n) == IF n < 0 THEN <<"-">> \o NatToString(-n) ELSE NatToString(n)

RECURSIVE LeadingDigits(_)
LeadingDigits(s) ==
    IF s = <<>> \/ ~IsDigit(Head(s)) THEN <<>>
    ELSE <<Head(s)>> \o LeadingDigits(Tail(s))

RECURSIVE DigitsValue(_)
DigitsValue(s) ==
    IF s = <<>> THEN 0
    ELSE 10 * DigitsValue(SubSeq(s, 1, Len(s) - 1)) + DigitVal(s[Len(s)])

\* std::stoi: an optional sign, then the longest run of digits; what follows
\* the digits is ignored.  No digit: std::invalid_argument.  Outside int:
\* std::out_of_range.
StoI(s) ==
    LET signed == s # <<>> /\ Head(s) \in {"-", "+"}
        body   == IF signed THEN Tail(s) ELSE s
        ds     == LeadingDigits(body)
        mag    == DigitsValue(ds)
        v      == IF signed /\ Head(s) = "-" THEN 0 - mag ELSE mag
    IN  IF ds = <<>> THEN [err |-> "invalid_argument", val |-> 0]
        ELSE IF v > IntMax \/ v < 0 - IntMax - 1
             THEN [err |-> "out_of_range", val |-> 0]
             ELSE [err |-> "none", val |-> v]

(***************************************************************************)
(* The store (c10d::PrefixStore), by its contract.                         *)
(***************************************************************************)
StoreHas(st, key) == key \in DOMAIN st

\* set(key, value): unconditional overwrite
StoreSet(st, key, value) ==
    [k \in DOMAIN st \cup {key} |-> IF k = key THEN value ELSE st[k]]

\* check(keys): every key exists
StoreCheck(st, ks) == \A k \in ks : StoreHas(st, k)

\* compareSet(key, expected, desired): the value returned, which is the value
\* stored after the attempt.  An absent key is claimed when expected is empty.
StoreCompareSetResult(st, key, expectedValue, desiredValue) ==
    IF StoreHas(st, key)
    THEN IF st[key] = expectedValue THEN desiredValue ELSE st[key]
    ELSE IF expectedValue = <<>> THEN desiredValue ELSE expectedValue

\* compareSet(key, expected, desired): the store afterwards
StoreCompareSet(st, key, expectedValue, desiredValue) ==
    IF StoreHas(st, key)
    THEN IF st[key] = expectedValue THEN StoreSet(st, key, desiredValue) ELSE st
    ELSE IF expectedValue = <<>> THEN StoreSet(st, key, desiredValue) ELSE st

\* add(key, delta): the new total; an absent key counts as 0
StoreAddTotal(st, key, delta) ==
    IF StoreHas(st, key) THEN StoI(st[key]).val + delta ELSE delta

\* add(key, delta): the store afterwards, the total kept as decimal text
StoreAdd(st, key, delta) ==
    StoreSet(st, key, to_string(StoreAddTotal(st, key, delta)))

(***************************************************************************)
(* Barrier keys.                                                           *)
(***************************************************************************)
storeKeyBarrierId == <<"_", "I", "D", "_">>

storeKeyProcessCount ==
    <<"P", "R", "O", "C", "E", "S", "S", "_", "C", "O", "U", "N", "T">>

storeKeyActiveCallCount ==
    <<"A", "C", "T", "I", "V", "E", "_", "C", "A", "L", "L", "S">>

storeKeyReady == <<"R", "E", "A", "D", "Y">>

\* fmt::format("{}{}{}", prefix, storeKeyBarrierId, id)
FormatKey(prefix, id) == prefix \o storeKeyBarrierId \o to_string(id)

ProcessCountKeyOf(id) == FormatKey(storeKeyProcessCount, id)

ActiveCallCountKeyOf(id) == FormatKey(storeKeyActiveCallCount, id)

ReadyKeyOf(id) == FormatKey(storeKeyReady, id)

\* key derivation that leaves the epoch out of the active-call key
KeyIdsSharedCount(id) ==
    [processCountKey    |-> ProcessCountKeyOf(id),
     activeCallCountKey |-> storeKeyActiveCallCount \o storeKeyBarrierId,
     readyKey           |-> ReadyKeyOf(id)]

\* the tuple getNextKeyIds returns when all three loads of barrierId see id
KeyIds(id) ==
    [processCountKey    |-> ProcessCountKeyOf(id),
     activeCallCountKey |-> ActiveCallCountKeyOf(id),
     readyKey           |-> ReadyKeyOf(id)]

NoKeys == [processCountKey |-> <<>>, activeCallCountKey |-> <<>>, readyKey |-> <<>>]

KeySet(ks) == {ks.processCountKey, ks.activeCallCountKey, ks.readyKey}

\* a last-arrival test that also holds for the arrivals before the last
IsLastArrivalUpTo(totalProcessCount, ws) == totalProcessCount <= ws

\* a last-arrival test that is one arrival early
IsLastArrivalEarly(totalProcessCount, ws) == totalProcessCount = ws - 1

\* a last-arrival test that no arrival of a full group meets
IsLastArrivalBeyond(totalProcessCount, ws) == totalProcessCount > ws

\* the test that makes a caller the last arrival
IsLastArrival(totalProcessCount, ws) == totalProcessCount = ws

(***************************************************************************)
(* Registry: names, ids, keys, the manifest text and its parsing.          *)
(***************************************************************************)
Alphabet == <<"a", "b", "c", "d", "e", "f", "g", "h">>

\* worker names: non-empty, without ',' and '-', of one or two characters
NameOf(i) ==
    IF i % 2 = 1 THEN <<Alphabet[i]>> ELSE <<Alphabet[i], Alphabet[i + 1]>>

Names == {NameOf(i) : i \in 1..NumNames}

\* ids of the dynamic joiners: 0, 6, 12, ... (one and two digits)
DynIds == {6 * i : i \in 0..(NumIds - 1)}

\* publication under the key of the next id
WorkerKeyShifted(id) == to_string(id + 1)

\* the key a worker publishes its name under: c10::to_string(id)
WorkerKey(id) == to_string(id)

allWorkerInfosKey ==
    <<"A", "l", "l", "W", "o", "r", "k", "e", "r", "I", "n", "f", "o", "s">>

\* s.find(delim, start) with positions from 1; 0 stands for npos
Find(s, delim, start) ==
    LET hits == {i \in start..(Len(s) - Len(delim) + 1) :
                   SubSeq(s, i, i + Len(delim) - 1) = delim}
    IN  IF hits = {} THEN 0 ELSE CHOOSE i \in hits : \A j \in hits : i <= j

RECURSIVE SplitFrom(_, _, _)
SplitFrom(s, delim, start) ==
    LET end == Find(s, delim, start)
    IN  IF end = 0 THEN <<SubSeq(s, start, Len(s))>>
        ELSE <<SubSeq(s, start, end - 1)>> \o SplitFrom(s, delim, end + Len(delim))

splitString(s, delim) == SplitFrom(s, delim, 1)

\* nameToId.emplace(name, id): no effect when the name is already a key
Emplace(table, name, id) ==
    IF name \in DOMAIN table THEN table
    ELSE [n \in DOMAIN table \cup {name} |-> IF n = name THEN id ELSE table[n]]

EmptyTable == [n \in {} |-> 0]

NoError == [kind |-> "none", info |-> <<>>]

\* the TORCH_CHECK on a name that is already in the table
NameCollision(table, name, id) ==
    [kind |-> "NameCollision", info |-> <<name, table[name], id>>]

\* the TORCH_CHECK on the result of compareSet
IdCollision(id, resultVector, name) ==
    [kind |-> "IdCollision", info |-> <<id, resultVector, name>>]

\* the check on the result of compareSet left out
IdClaimedUnchecked(resultVector, selfNameVector) == TRUE

\* the test on what compareSet returned
IdClaimed(resultVector, selfNameVector) == resultVector = selfNameVector

\* the uniqueness check left out
NameIsUniqueUnchecked(table, name) == TRUE

\* nameToId.find(workerName) == nameToId.end()
NameIsUnique(table, name) == name \notin DOMAIN table

\* the own record with the two separators exchanged
FormatWorkerInfoSwapped(name, id) == name \o <<",">> \o to_string(id)

\* fmt::format("{}-{}", selfName, selfId)
FormatWorkerInfo(name, id) == name \o <<"-">> \o to_string(id)

\* the own record put in front of the text read
AppendWorkerInfoInFront(infos, name, id) ==
    name \o <<"-">> \o to_string(id) \o <<",">> \o infos

\* fmt::format("{},{}-{}", allWorkerInfos, selfName, selfId)
AppendWorkerInfo(infos, name, id) ==
    infos \o <<",">> \o name \o <<"-">> \o to_string(id)

\* the loop over splitString(allWorkerInfos, ","): the table, or the first error
RECURSIVE ParseWorkerInfos(_, _)
ParseWorkerInfos(infos, table) ==
    IF infos = <<>> THEN [error |-> NoError, nameToId |-> table]
    ELSE LET workerInfoVec == splitString(Head(infos), <<"-">>)
             workerName    == workerInfoVec[1]
             parsedId      == StoI(workerInfoVec[2])
         IN  IF Len(workerInfoVec) < 2
             THEN [error |-> [kind |-> "out_of_range", info |-> <<>>],
                   nameToId |-> table]
             ELSE IF parsedId.err # "none"
             THEN [error |-> [kind |-> parsedId.err, info |-> <<>>],
                   nameToId |-> table]
             ELSE IF ~NameIsUnique(table, workerName)
             THEN [error |-> NameCollision(table, workerName, parsedId.val),
                   nameToId |-> table]
             ELSE ParseWorkerInfos(Tail(infos),
                                   Emplace(table, workerName, parsedId.val))

\* a loop that stops one peer short
MorePeersShort(id, ws) == id < ws - 1

\* the loop condition workerId < worldSize
MorePeers(id, ws) == id < ws

\* the loop without its `continue` for the caller's own id
NextPeerNoSkip(from, self) == from

\* the first peer id from `from` on that is not the caller's own
NextPeer(from, self) == IF from = self THEN from + 1 ELSE from

(***************************************************************************)
(* State.                                                                  *)
(***************************************************************************)
VARIABLES
    store,          \* the shared store: existing key -> value
    worldSize,      \* the group size every caller passes
    callers,        \* the processes that call syncCallCount
    barrierId,      \* per process: the static epoch counter
    bpc,            \* per process: position inside syncCallCount
    keys,           \* per process: the three keys of the current call
    activeCalls,    \* per process: argument of the current call
    overlapped,     \* an epoch got a contribution while the one before was open
    returned,       \* per caller: what its calls returned, in order
    expected,       \* per epoch: sum of activeCalls of the calls that entered it
    rounds,         \* the number of calls each caller makes in this run
    rpc,            \* per worker: position inside its registry call
    selfId,         \* per worker: argument selfId
    selfName,       \* per worker: argument selfName
    nameToId,       \* per worker: the table being built, then returned
    workerId,       \* per worker: loop variable of collectNames
    allWorkerInfos, \* per worker: the manifest text held by collectCurrentNames
    failure         \* per worker: the error its call raised, if any

barrierVars == <<worldSize, callers, barrierId, bpc, keys, activeCalls,
                 overlapped, returned, expected, rounds>>

registryVars == <<rpc, selfId, selfName, nameToId, workerId, allWorkerInfos,
                  failure>>

vars == <<store, barrierVars, registryVars>>

Epochs == 1..MaxCalls

EmptyStore == [k \in {} |-> <<>>]

\* what a process holds before its first call
InitLocals ==
    /\ barrierId = [p \in Procs |-> 0]
    /\ bpc = [p \in Procs |-> "idle"]
    /\ keys = [p \in Procs |-> NoKeys]
    /\ activeCalls = [p \in Procs |-> 0]
    /\ overlapped = FALSE
    /\ returned = [p \in Procs |-> <<>>]
    /\ expected = [e \in Epochs |-> 0]

\* what a worker holds before its registry call
InitWorkerLocals ==
    /\ nameToId = [w \in Slots |-> EmptyTable]
    /\ workerId = [w \in Slots |-> 0]
    /\ allWorkerInfos = [w \in Slots |-> <<>>]
    /\ failure = [w \in Slots |-> NoError]

\* no registry call is made
NoRegistry ==
    /\ rpc = [w \in Slots |-> "off"]
    /\ selfId = [w \in Slots |-> 0]
    /\ selfName = [w \in Slots |-> <<>>]
    /\ InitWorkerLocals

\* no barrier call is made
NoBarrier ==
    /\ callers = {}
    /\ rounds = 0
    /\ InitLocals

\* one barrier epoch: any group size, and fewer, as many or more callers
Init ==
    /\ store = EmptyStore
    /\ worldSize \in 1..NumProcs
    /\ \E n \in 1..NumProcs : callers = 1..n
    /\ rounds = 1
    /\ InitLocals
    /\ NoRegistry

\* one barrier epoch with exactly worldSize callers
InitExact == Init /\ Cardinality(callers) = worldSize

\* repeated barriers: the same worldSize processes call MaxCalls times each
InitRounds ==
    /\ store = EmptyStore
    /\ worldSize \in 1..NumRoundProcs
    /\ callers = 1..worldSize
    /\ rounds = MaxCalls
    /\ InitLocals
    /\ NoRegistry

\* fixed-size registry: worldSize workers with ids 0..worldSize-1, any names
InitNames ==
    /\ store = EmptyStore
    /\ worldSize \in 1..NumWorkers
    /\ rpc = [w \in Slots |-> IF w <= worldSize THEN "start" ELSE "off"]
    /\ selfId = [w \in Slots |-> IF w <= worldSize THEN w - 1 ELSE 0]
    /\ \E f \in [1..worldSize -> Names] :
         selfName = [w \in Slots |-> IF w <= worldSize THEN f[w] ELSE <<>>]
    /\ InitWorkerLocals
    /\ NoBarrier

\* dynamic registry: NumJoiners workers, each with any id and any name
InitCurrentNames ==
    /\ store = EmptyStore
    /\ worldSize = 0
    /\ rpc = [w \in Slots |-> IF w <= NumJoiners THEN "start" ELSE "off"]
    /\ \E f \in [1..NumJoiners -> DynIds] :
         selfId = [w \in Slots |-> IF w <= NumJoiners THEN f[w] ELSE 0]
    /\ \E f \in [1..NumJoiners -> Names] :
         selfName = [w \in Slots |-> IF w <= NumJoiners THEN f[w] ELSE <<>>]
    /\ InitWorkerLocals
    /\ NoBarrier

(***************************************************************************)
(* syncCallCount, one action per store round trip.                         *)
(***************************************************************************)
\* some caller of epoch e has not yet read the aggregate of e
StillInside(e) ==
    \E q \in callers : barrierId[q] = e /\ bpc[q] \in {"wait", "get"}

\* reading the process count back instead of the active calls
AggregateKeyProcessCount(p) == keys[p].processCountKey

\* the key whose value syncCallCount reads after the wait and returns
AggregateKey(p) == keys[p].activeCallCountKey

\* entry with the keys derived before the counter is incremented
EnterKeysFirst(p) ==
    /\ p \in callers
    /\ bpc[p] = "idle"
    /\ barrierId[p] < rounds
    /\ \E a \in 0..MaxActive :
         /\ activeCalls' = [activeCalls EXCEPT ![p] = a]
         /\ expected' = [expected EXCEPT ![barrierId[p] + 1] = @ + a]
    /\ barrierId' = [barrierId EXCEPT ![p] = @ + 1]
    /\ keys' = [keys EXCEPT ![p] = KeyIds(barrierId[p])]
    /\ bpc' = [bpc EXCEPT ![p] = "addActive"]
    /\ UNCHANGED <<store, worldSize, callers, overlapped, returned,
                   rounds, registryVars>>

\* entry and getNextKeyIds (calls of one process are serialized)
Enter(p) ==
    /\ p \in callers
    /\ bpc[p] = "idle"
    /\ barrierId[p] < rounds
    /\ \E a \in 0..MaxActive :
         /\ activeCalls' = [activeCalls EXCEPT ![p] = a]
         /\ expected' = [expected EXCEPT ![barrierId[p] + 1] = @ + a]
    /\ barrierId' = [barrierId EXCEPT ![p] = @ + 1]
    /\ keys' = [keys EXCEPT ![p] = KeyIds(barrierId[p] + 1)]
    /\ bpc' = [bpc EXCEPT ![p] = "addActive"]
    /\ UNCHANGED <<store, worldSize, callers, overlapped, returned,
                   rounds, registryVars>>

\* the add of the active calls left out
AddActiveOmitted(p) ==
    /\ bpc[p] = "addActive"
    /\ bpc' = [bpc EXCEPT ![p] = "addProcess"]
    /\ UNCHANGED <<store, worldSize, callers, barrierId, keys, activeCalls,
                   overlapped, returned, expected, rounds, registryVars>>

\* store.add(activeCallCountKey, activeCalls)
AddActive(p) ==
    /\ bpc[p] = "addActive"
    /\ store' = StoreAdd(store, keys[p].activeCallCountKey, activeCalls[p])
    /\ overlapped' = (overlapped \/ StillInside(barrierId[p] - 1))
    /\ bpc' = [bpc EXCEPT ![p] = "addProcess"]
    /\ UNCHANGED <<worldSize, callers, barrierId, keys, activeCalls, returned,
                   expected, rounds, registryVars>>

\* store.add(processCountKey, 1) and the last-arrival test
AddProcess(p) ==
    /\ bpc[p] = "addProcess"
    /\ store' = StoreAdd(store, keys[p].processCountKey, 1)
    /\ bpc' = [bpc EXCEPT ![p] =
                 IF IsLastArrival(StoreAddTotal(store, keys[p].processCountKey, 1),
                                  worldSize)
                 THEN "setReady" ELSE "wait"]
    /\ UNCHANGED <<worldSize, callers, barrierId, keys, activeCalls,
                   overlapped, returned, expected, rounds,
                   registryVars>>

\* store.set(readyKey, {})
SetReady(p) ==
    /\ bpc[p] = "setReady"
    /\ store' = StoreSet(store, keys[p].readyKey, <<>>)
    /\ bpc' = [bpc EXCEPT ![p] = "wait"]
    /\ UNCHANGED <<worldSize, callers, barrierId, keys, activeCalls,
                   overlapped, returned, expected, rounds,
                   registryVars>>

\* store.wait({readyKey}) returns
Wait(p) ==
    /\ bpc[p] = "wait"
    /\ StoreHas(store, keys[p].readyKey)
    /\ bpc' = [bpc EXCEPT ![p] = "get"]
    /\ UNCHANGED <<store, worldSize, callers, barrierId, keys, activeCalls,
                   overlapped, returned, expected, rounds,
                   registryVars>>

\* store.get(activeCallCountKey), std::stoi, return
GetReturn(p) ==
    /\ bpc[p] = "get"
    /\ StoreHas(store, AggregateKey(p))
    /\ LET r == StoI(store[AggregateKey(p)])
       IN  IF r.err = "none"
           THEN /\ returned' = [returned EXCEPT ![p] =
                                  Append(@, r.val)]
                /\ bpc' = [bpc EXCEPT ![p] = "idle"]
           ELSE /\ returned' = returned
                /\ bpc' = [bpc EXCEPT ![p] = "threw"]
    /\ UNCHANGED <<store, worldSize, callers, barrierId, keys, activeCalls,
                   overlapped, expected, rounds, registryVars>>

ProcStep(p) ==
    \/ Enter(p)
    \/ AddActive(p)
    \/ AddProcess(p)
    \/ SetReady(p)
    \/ Wait(p)
    \/ GetReturn(p)

Next == \E p \in Procs : ProcStep(p)

Spec == Init /\ [][Next]_vars

SpecRounds == InitRounds /\ [][Next]_vars

\* one epoch with exactly worldSize callers, each of which keeps taking steps
FairSpec ==
    /\ InitExact
    /\ [][Next]_vars
    /\ \A p \in Procs : WF_vars(ProcStep(p))

(***************************************************************************)
(* The barrier: properties.                                                *)
(***************************************************************************)
ExactGroup == Cardinality(callers) = worldSize

\* the callers that have called epoch e
Entered(e) == {q \in callers : barrierId[q] >= e}

\* the epochs p has passed the wait of
PassedWait(p) ==
    {e \in Epochs : e <= Len(returned[p]) \/ (e = barrierId[p] /\ bpc[p] = "get")}

\* the number under the process-count key of epoch e, 0 when absent
ProcessCount(e) ==
    IF StoreHas(store, ProcessCountKeyOf(e))
    THEN StoI(store[ProcessCountKeyOf(e)]).val ELSE 0

\* C1: with exactly worldSize callers of an epoch, every value returned for
\* that epoch is the sum of the activeCalls of all its callers, so all the
\* callers that return get the same value.
C1_ReturnsSum ==
    ExactGroup =>
        \A p \in callers : \A e \in 1..Len(returned[p]) :
            /\ Entered(e) = callers
            /\ returned[p][e] = expected[e]

\* three callers that contribute 1 each have all received 3
C1_Witness ==
    /\ worldSize = 3
    /\ callers = {1, 2, 3}
    /\ \A p \in callers : activeCalls[p] = 1 /\ returned[p] = <<3>>

\* C2: whoever has passed the wait of epoch e (and so whoever returned from
\* it) finds at least worldSize callers entered and counted under the
\* process-count key of e.
C2_NoEarlyReturn ==
    \A p \in callers : \A e \in PassedWait(p) :
        /\ ProcessCount(e) >= worldSize
        /\ Cardinality(Entered(e)) >= worldSize

\* one caller has returned while another of the same epoch is still inside
C2_Witness ==
    /\ worldSize >= 2
    /\ ExactGroup
    /\ \E p, q \in callers :
         /\ Len(returned[p]) = 1
         /\ bpc[q] = "wait"
         /\ ProcessCount(1) = worldSize

\* C3: with exactly worldSize callers that keep taking steps, the ready
\* marker of the epoch gets written and every caller returns.
C3_AllReturn ==
    ExactGroup ~>
        (/\ StoreHas(store, ReadyKeyOf(1))
         /\ \A p \in callers : Len(returned[p]) = 1 /\ bpc[p] = "idle")

\* the last arrival has written the marker and has itself returned
C3_Witness ==
    /\ ExactGroup
    /\ worldSize = NumProcs
    /\ StoreHas(store, ReadyKeyOf(1))
    /\ \A p \in callers : Len(returned[p]) = 1 /\ bpc[p] = "idle"

\* C4: with fewer than worldSize callers no ready marker is ever written and
\* no caller gets past the wait: none returns.
C4_FewerBlock ==
    Cardinality(callers) < worldSize =>
        /\ \A e \in Epochs : ~StoreHas(store, ReadyKeyOf(e))
        /\ \A p \in Procs :
             /\ returned[p] = <<>>
             /\ bpc[p] \in {"idle", "addActive", "addProcess", "wait"}
             /\ ~ENABLED Wait(p)

\* every one of too few callers sits in the wait
C4_Witness ==
    /\ Cardinality(callers) < worldSize
    /\ Cardinality(callers) >= 2
    /\ \A p \in callers : bpc[p] = "wait"
    /\ ProcessCount(1) = Cardinality(callers)

\* C5: the keys of two different epochs are disjoint, the keys of one epoch
\* are the same for every process, and every value returned for an epoch is
\* the sum of the contributions to that epoch alone, stragglers of the epoch
\* before notwithstanding.
C5_EpochsApart ==
    /\ \A p, q \in callers :
         (barrierId[p] >= 1 /\ barrierId[q] >= 1) =>
            IF barrierId[p] = barrierId[q]
            THEN keys[p] = keys[q]
            ELSE KeySet(keys[p]) \cap KeySet(keys[q]) = {}
    /\ \A p \in callers : Cardinality(KeySet(keys[p])) = 3 \/ barrierId[p] = 0
    /\ \A p \in callers : \A e \in 1..Len(returned[p]) :
         returned[p][e] = expected[e]

\* both rounds are over, the second was contributed to while a process was
\* still inside the first, and the two sums differ
C5_Witness ==
    /\ overlapped
    /\ worldSize = 2
    /\ expected[1] # expected[2]
    /\ \A p \in callers : returned[p] = <<expected[1], expected[2]>>

\* more processes call the epoch than the group size they pass
MoreCallers == Cardinality(callers) > worldSize

\* the callers whose increment of the process-count key is done
Incremented == {p \in callers : bpc[p] \in {"setReady", "wait", "get"}
                                 \/ Len(returned[p]) >= 1}

\* the callers whose increment returned worldSize and who have yet to write
Triggered == {p \in callers : bpc[p] = "setReady"}

AddedActive(e) ==
    {p \in callers : barrierId[p] > e \/ (barrierId[p] = e /\ bpc[p] # "addActive")}

\* the callers of epoch e whose increment returned worldSize and who have yet
\* to write the marker
TriggeredIn(e) == {p \in callers : barrierId[p] = e /\ bpc[p] = "setReady"}

\* C15: with exactly worldSize callers of an epoch: no more callers are
\* counted than have added their activeCalls; once the ready key exists all
\* of them have added, the active-call key holds the whole sum and keeps its
\* value in every later step; and the marker is written once, in a step of
\* the one caller whose increment returned worldSize.
C15_ReadyAfterAdds ==
    /\ [](ExactGroup => \A e \in Epochs :
            /\ ProcessCount(e) <= Cardinality(AddedActive(e))
            /\ Cardinality(TriggeredIn(e)) <= 1
            /\ TriggeredIn(e) # {} =>
                  /\ ProcessCount(e) = worldSize
                  /\ ~StoreHas(store, ReadyKeyOf(e))
            /\ StoreHas(store, ReadyKeyOf(e)) =>
                  /\ AddedActive(e) = callers
                  /\ ProcessCount(e) = worldSize
                  /\ StoreHas(store, ActiveCallCountKeyOf(e))
                  /\ store[ActiveCallCountKeyOf(e)] = to_string(expected[e]))
    /\ [][ExactGroup => \A e \in Epochs :
            /\ StoreHas(store, ReadyKeyOf(e)) =>
                  store'[ActiveCallCountKeyOf(e)] = store[ActiveCallCountKeyOf(e)]
            /\ (~StoreHas(store, ReadyKeyOf(e)) /\ StoreHas(store', ReadyKeyOf(e))) =>
                  \E p \in TriggeredIn(e) : bpc'[p] = "wait"]_vars

\* the marker of the first epoch is there, the sum under its active-call key
\* is 2, one caller is still waiting on it and the other has already added
\* to the second epoch
C15_Witness ==
    /\ worldSize = 2
    /\ StoreHas(store, ReadyKeyOf(1))
    /\ store[ActiveCallCountKeyOf(1)] = <<"2">>
    /\ \E p, q \in callers :
         /\ barrierId[p] = 1 /\ bpc[p] = "wait"
         /\ barrierId[q] = 2 /\ bpc[q] = "addProcess" /\ activeCalls[q] = 1

\* the number of syncCallCount calls process p has made so far
CallsMade(p) == Len(returned[p]) + (IF bpc[p] = "idle" THEN 0 ELSE 1)

\* the epoch a key was derived for: the number read back from what follows
\* the prefix and "_ID_"
EpochOfKey(key, prefix) ==
    IF /\ Len(key) > Len(prefix) + 4
       /\ SubSeq(key, 1, Len(prefix)) = prefix
       /\ SubSeq(key, Len(prefix) + 1, Len(prefix) + 4) = <<"_", "I", "D", "_">>
    THEN StoI(SubSeq(key, Len(prefix) + 5, Len(key))).val
    ELSE 0 - 1

\* C19: the epoch counter of a process counts the calls the process has made
\* (0 before the first); a step changes it only by entering a call, and then
\* by one; the keys of the k-th call are the three prefixes followed by _ID_
\* and the decimal k; so processes with the same number of calls hold the
\* same triple, and the triples of different epochs have no key in common.
C19_EpochPerCall ==
    /\ [](\A p \in callers :
            /\ barrierId[p] = CallsMade(p)
            /\ barrierId[p] >= 1 =>
                  /\ EpochOfKey(keys[p].processCountKey, storeKeyProcessCount)
                        = CallsMade(p)
                  /\ EpochOfKey(keys[p].activeCallCountKey, storeKeyActiveCallCount)
                        = CallsMade(p)
                  /\ EpochOfKey(keys[p].readyKey, storeKeyReady) = CallsMade(p)
            /\ \A q \in callers :
                  (CallsMade(p) = CallsMade(q)) => keys[p] = keys[q])
    /\ [](\A p \in callers : \A e \in 1..MaxEpoch :
            e # CallsMade(p) => KeySet(KeyIds(e)) \cap KeySet(keys[p]) = {})
    /\ [][\A p \in callers :
            \/ barrierId'[p] = barrierId[p]
            \/ /\ barrierId'[p] = barrierId[p] + 1
               /\ bpc[p] = "idle" /\ bpc'[p] = "addActive"
               /\ keys'[p] # keys[p]]_vars

\* one process is in its second call and holds the keys of epoch 2 while the
\* other, still in its first call, holds the keys of epoch 1
C19_Witness ==
    \E p, q \in callers :
        /\ barrierId[p] = 2 /\ Len(returned[p]) = 1 /\ bpc[p] = "wait"
        /\ keys[p].readyKey = <<"R", "E", "A", "D", "Y", "_", "I", "D", "_", "2">>
        /\ barrierId[q] = 1 /\ bpc[q] = "get"
        /\ keys[q].readyKey = <<"R", "E", "A", "D", "Y", "_", "I", "D", "_", "1">>


(***************************************************************************)
(* collectNames: the fixed-size registry, one action per store round trip. *)
(***************************************************************************)
\* store.set(to_string(selfId), selfName); the table starts with the caller
SetSelfName(w) ==
    /\ rpc[w] = "start"
    /\ store' = StoreSet(store, WorkerKey(selfId[w]), selfName[w])
    /\ nameToId' = [nameToId EXCEPT ![w] = Emplace(EmptyTable, selfName[w], selfId[w])]
    /\ workerId' = [workerId EXCEPT ![w] = NextPeer(0, selfId[w])]
    /\ rpc' = [rpc EXCEPT ![w] =
                 IF MorePeers(NextPeer(0, selfId[w]), worldSize)
                 THEN "loop" ELSE "done"]
    /\ UNCHANGED <<barrierVars, selfId, selfName, allWorkerInfos, failure>>

\* store.get(to_string(workerId)), the uniqueness check, emplace, ++workerId
GetPeerName(w) ==
    /\ rpc[w] = "loop"
    /\ StoreHas(store, WorkerKey(workerId[w]))
    /\ LET workerName == store[WorkerKey(workerId[w])]
           next       == NextPeer(workerId[w] + 1, selfId[w])
       IN  IF ~NameIsUnique(nameToId[w], workerName)
           THEN /\ failure' = [failure EXCEPT ![w] =
                                 NameCollision(nameToId[w], workerName, workerId[w])]
                /\ rpc' = [rpc EXCEPT ![w] = "failed"]
                /\ nameToId' = [nameToId EXCEPT ![w] = EmptyTable]
                /\ UNCHANGED workerId
           ELSE /\ nameToId' = [nameToId EXCEPT ![w] =
                                  Emplace(@, workerName, workerId[w])]
                /\ workerId' = [workerId EXCEPT ![w] = next]
                /\ rpc' = [rpc EXCEPT ![w] =
                             IF MorePeers(next, worldSize) THEN "loop" ELSE "done"]
                /\ UNCHANGED failure
    /\ UNCHANGED <<store, barrierVars, selfId, selfName, allWorkerInfos>>

NextNames ==
    \E w \in Slots :
        \/ SetSelfName(w)
        \/ GetPeerName(w)

SpecNames == InitNames /\ [][NextNames]_vars

(***************************************************************************)
(* The fixed-size registry: properties.                                    *)
(***************************************************************************)
\* the workers that make a registry call
Members == {w \in Slots : rpc[w] # "off"}

DistinctNames ==
    \A w, v \in Members : w # v => selfName[w] # selfName[v]

\* with distinct names: every member's name mapped to that member's id
FullTable ==
    [n \in {selfName[w] : w \in Members} |->
        selfId[CHOOSE w \in Members : selfName[w] = n]]

\* the name published by the worker of id j (ids are 0..worldSize-1)
NameOfId(j) == selfName[j + 1]

\* the ids whose name worker w holds once it has read the peers below j
HeldBefore(w, j) ==
    {selfId[w]} \cup {i \in 0..(j - 1) : i # selfId[w]}

\* the peer ids at which worker w meets a name it already holds
Clashes(w) ==
    {j \in 0..(worldSize - 1) :
        /\ j # selfId[w]
        /\ \E i \in HeldBefore(w, j) : NameOfId(i) = NameOfId(j)}

FirstClash(w) == CHOOSE j \in Clashes(w) : \A k \in Clashes(w) : j <= k

\* C6: workers 0..worldSize-1 with pairwise distinct names: no call fails, and
\* every call that returns returns the same table, of worldSize entries, that
\* maps each worker's name to its id.
C6_SameTable ==
    DistinctNames =>
        \A w \in Members :
            /\ rpc[w] # "failed"
            /\ rpc[w] = "done" =>
                  /\ nameToId[w] = FullTable
                  /\ Cardinality(DOMAIN nameToId[w]) = worldSize
                  /\ \A v \in Members : nameToId[w][selfName[v]] = selfId[v]

\* three workers with three names have all returned the table of the three
C6_Witness ==
    /\ worldSize = 3
    /\ DistinctNames
    /\ \A w \in Members :
         /\ rpc[w] = "done"
         /\ DOMAIN nameToId[w] = {selfName[1], selfName[2], selfName[3]}
         /\ \A v \in Members : nameToId[w][selfName[v]] = v - 1

\* C7: when two workers publish the same name no call returns a table; a
\* call reads its peers in id order up to the first id whose name it already
\* holds and fails there with NameCollision, naming the name and both ids.
C7_NameCollision ==
    ~DistinctNames =>
        \A w \in Members :
            /\ rpc[w] # "done"
            /\ Clashes(w) # {}
            /\ rpc[w] = "loop" => workerId[w] <= FirstClash(w)
            /\ rpc[w] = "failed" =>
                  /\ failure[w].kind = "NameCollision"
                  /\ failure[w].info[1] = NameOfId(FirstClash(w))
                  /\ failure[w].info[3] = FirstClash(w)
                  /\ failure[w].info[2] \in HeldBefore(w, FirstClash(w))
                  /\ NameOfId(failure[w].info[2]) = NameOfId(FirstClash(w))

\* three workers, two of them with one name: all three calls have failed
C7_Witness ==
    /\ worldSize = 3
    /\ ~DistinctNames
    /\ \E w, v \in Members : selfName[w] # selfName[v]
    /\ \A w \in Members : rpc[w] = "failed" /\ failure[w].kind = "NameCollision"

\* the worker keys of the group: one per id in [0, worldSize)
GroupKeys == {WorkerKey(id) : id \in 0..(worldSize - 1)}

\* C11: as long as one of the worker keys of the group is missing no call has
\* returned a table: once a worker has returned, every id in [0, worldSize)
\* has its name published under its worker key.
C11_AllPublished ==
    (\E w \in Members : rpc[w] = "done") =>
        \A k \in GroupKeys : StoreHas(store, k)

\* of three workers one has returned with the three names while another one,
\* which has published, is still reading its peers
C11_Witness ==
    /\ worldSize = 3
    /\ \E w, v \in Members :
         /\ rpc[w] = "done"
         /\ Cardinality(DOMAIN nameToId[w]) = 3
         /\ rpc[v] = "loop"
    /\ \A k \in GroupKeys : StoreHas(store, k)

\* worker w takes a step of its call
Moves(w) ==
    \/ rpc'[w] # rpc[w]
    \/ workerId'[w] # workerId[w]
    \/ nameToId'[w] # nameToId[w]

\* the store after `set(key, value)`, every other key as it was
OnlyWrites(key, value) ==
    /\ DOMAIN store' = DOMAIN store \cup {key}
    /\ store'[key] = value
    /\ \A k \in DOMAIN store \ {key} : store'[k] = store[k]

\* C12: the first step of a call writes the caller's name under the decimal
\* text of its id and leaves every other key alone; it comes before any read
\* (the table then holds the caller only); no later step of the call, the one
\* that fails with NameCollision included, writes anything, and the writing
\* step is never taken again.
C12_OneWrite ==
    /\ [][\A w \in Members :
            /\ (rpc[w] = "start" /\ Moves(w)) =>
                  /\ OnlyWrites(to_string(selfId[w]), selfName[w])
                  /\ DOMAIN nameToId'[w] = {selfName[w]}
            /\ (rpc[w] # "start" /\ Moves(w)) => store' = store
            /\ rpc[w] # "start" => rpc'[w] # "start"]_vars
    /\ [](\A w \in Members :
            /\ rpc[w] = "start" => nameToId[w] = EmptyTable
            /\ rpc[w] # "start" =>
                  /\ StoreHas(store, to_string(selfId[w]))
                  /\ store[to_string(selfId[w])] = selfName[w])

\* three calls are over, one of them failed with NameCollision, and the store
\* holds the three published names and nothing else
C12_Witness ==
    /\ worldSize = 3
    /\ \A w \in Members : rpc[w] \in {"done", "failed"}
    /\ \E w \in Members : rpc[w] = "failed" /\ failure[w].kind = "NameCollision"
    /\ DOMAIN store = {to_string(selfId[w]) : w \in Members}
    /\ \A w \in Members : store[to_string(selfId[w])] = selfName[w]

(***************************************************************************)
(* collectCurrentNames: the dynamic registry.                              *)
(***************************************************************************)
\* store.compareSet(to_string(selfId), {}, selfName) and the check on its result
ClaimId(w) ==
    /\ rpc[w] = "start"
    /\ LET resultVector ==
             StoreCompareSetResult(store, WorkerKey(selfId[w]), <<>>, selfName[w])
       IN  /\ store' = StoreCompareSet(store, WorkerKey(selfId[w]), <<>>, selfName[w])
           /\ IF IdClaimed(resultVector, selfName[w])
              THEN /\ rpc' = [rpc EXCEPT ![w] = "set"]
                   /\ UNCHANGED failure
              ELSE /\ rpc' = [rpc EXCEPT ![w] = "failed"]
                   /\ failure' = [failure EXCEPT ![w] =
                                    IdCollision(selfId[w], resultVector, selfName[w])]
    /\ UNCHANGED <<barrierVars, selfId, selfName, nameToId, workerId, allWorkerInfos>>

\* the republication without the caller's own entry in the table
SetNameNoSelf(w) ==
    /\ rpc[w] = "set"
    /\ store' = StoreSet(store, WorkerKey(selfId[w]), selfName[w])
    /\ rpc' = [rpc EXCEPT ![w] = "check"]
    /\ UNCHANGED <<barrierVars, selfId, selfName, nameToId, workerId,
                   allWorkerInfos, failure>>

\* store.set(to_string(selfId), selfName); the table starts with the caller
SetName(w) ==
    /\ rpc[w] = "set"
    /\ store' = StoreSet(store, WorkerKey(selfId[w]), selfName[w])
    /\ nameToId' = [nameToId EXCEPT ![w] = Emplace(EmptyTable, selfName[w], selfId[w])]
    /\ rpc' = [rpc EXCEPT ![w] = "check"]
    /\ UNCHANGED <<barrierVars, selfId, selfName, workerId, allWorkerInfos, failure>>

\* store.check({"AllWorkerInfos"}); without a manifest the text is the own record
CheckInfos(w) ==
    /\ rpc[w] = "check"
    /\ IF StoreCheck(store, {allWorkerInfosKey})
       THEN /\ rpc' = [rpc EXCEPT ![w] = "get"]
            /\ UNCHANGED allWorkerInfos
       ELSE /\ rpc' = [rpc EXCEPT ![w] = "write"]
            /\ allWorkerInfos' = [allWorkerInfos EXCEPT ![w] =
                                    FormatWorkerInfo(selfName[w], selfId[w])]
    /\ UNCHANGED <<store, barrierVars, selfId, selfName, nameToId, workerId, failure>>

\* store.get("AllWorkerInfos"), the parse of every record, the own record appended
GetInfos(w) ==
    /\ rpc[w] = "get"
    /\ StoreHas(store, allWorkerInfosKey)
    /\ LET text   == store[allWorkerInfosKey]
           parsed == ParseWorkerInfos(splitString(text, <<",">>), nameToId[w])
       IN  IF parsed.error.kind = "none"
           THEN /\ nameToId' = [nameToId EXCEPT ![w] = parsed.nameToId]
                /\ allWorkerInfos' = [allWorkerInfos EXCEPT ![w] =
                                        AppendWorkerInfo(text, selfName[w], selfId[w])]
                /\ rpc' = [rpc EXCEPT ![w] = "write"]
                /\ UNCHANGED failure
           ELSE /\ nameToId' = [nameToId EXCEPT ![w] = EmptyTable]
                /\ allWorkerInfos' = [allWorkerInfos EXCEPT ![w] = text]
                /\ rpc' = [rpc EXCEPT ![w] = "failed"]
                /\ failure' = [failure EXCEPT ![w] = parsed.error]
    /\ UNCHANGED <<store, barrierVars, selfId, selfName, workerId>>

\* store.set("AllWorkerInfos", allWorkerInfos) and the return of the table
SetInfos(w) ==
    /\ rpc[w] = "write"
    /\ store' = StoreSet(store, allWorkerInfosKey, allWorkerInfos[w])
    /\ rpc' = [rpc EXCEPT ![w] = "done"]
    /\ UNCHANGED <<barrierVars, selfId, selfName, nameToId, workerId,
                   allWorkerInfos, failure>>

NextCurrentNames ==
    \E w \in Slots :
        \/ ClaimId(w)
        \/ SetName(w)
        \/ CheckInfos(w)
        \/ GetInfos(w)
        \/ SetInfos(w)

SpecCurrentNames == InitCurrentNames /\ [][NextCurrentNames]_vars

\* dynamic registry, joiners with pairwise distinct ids and names
InitSequential ==
    /\ InitCurrentNames
    /\ \A w, v \in 1..NumJoiners :
         w # v => selfId[w] # selfId[v] /\ selfName[w] # selfName[v]

\* a call that starts when no other call is under way: worker w calls after
\* the calls of the workers before it are over
JoinNext(w) ==
    /\ \A v \in Slots : v # w => rpc[v] \in {"off", "start", "done", "failed"}
    /\ \A v \in 1..(w - 1) : rpc[v] \in {"done", "failed"}
    /\ ClaimId(w)

NextSequential ==
    \E w \in Slots :
        \/ JoinNext(w)
        \/ SetName(w)
        \/ CheckInfos(w)
        \/ GetInfos(w)
        \/ SetInfos(w)

\* the joiners call collectCurrentNames one after another
SpecSequential == InitSequential /\ [][NextSequential]_vars

(***************************************************************************)
(* The dynamic registry: properties.                                       *)
(***************************************************************************)
\* worker w got past the check on the result of its compareSet
PastClaim(w) ==
    \/ rpc[w] \in {"set", "check", "get", "write", "done"}
    \/ rpc[w] = "failed" /\ failure[w].kind # "IdCollision"

Returned(w) == rpc[w] = "done"

\* the names of the records of a manifest text
ManifestNames(text) ==
    LET infos == splitString(text, <<",">>)
    IN  {splitString(infos[i], <<"-">>)[1] : i \in 1..Len(infos)}

C9_LastWriterWins ==
    /\ \A w \in Members :
         rpc[w] = "failed" =>
            \/ /\ failure[w].kind = "IdCollision"
               /\ \E v \in Members \ {w} : selfId[v] = selfId[w]
            \/ /\ failure[w].kind = "NameCollision"
               /\ \E v \in Members \ {w} : selfName[v] = selfName[w]
    /\ StoreHas(store, allWorkerInfosKey) =>
         \E w \in Members :
            Returned(w) /\ store[allWorkerInfosKey] = allWorkerInfos[w]

\* two workers with different ids and names have both returned, the manifest
\* holds the record of one of them only, and neither table has the other
C9_Witness ==
    \E w, v \in Members :
        /\ selfId[w] # selfId[v]
        /\ selfName[w] # selfName[v]
        /\ Returned(w) /\ Returned(v)
        /\ failure[w] = NoError /\ failure[v] = NoError
        /\ store[allWorkerInfosKey] = FormatWorkerInfo(selfName[v], selfId[v])
        /\ DOMAIN nameToId[w] = {selfName[w]}
        /\ DOMAIN nameToId[v] = {selfName[v]}

\* the step in which worker w reads a manifest that has its own name
ReadsOwnName(w) ==
    /\ rpc[w] = "get"
    /\ rpc'[w] # "get"
    /\ selfName[w] \in ManifestNames(store[allWorkerInfosKey])

\* C10: a worker that reads a manifest with its own name in it fails with
\* NameCollision in that step, which writes nothing: the manifest stays as
\* read; and the id key of a worker that failed so keeps holding its name.
C10_NoRollback ==
    /\ [][\A w \in Members :
            ReadsOwnName(w) =>
               /\ rpc'[w] = "failed"
               /\ failure'[w].kind = "NameCollision"
               /\ store' = store
               /\ allWorkerInfos'[w] = store'[allWorkerInfosKey]]_vars
    /\ [](\A w \in Members :
            (rpc[w] = "failed" /\ failure[w].kind = "NameCollision") =>
               /\ StoreHas(store, WorkerKey(selfId[w]))
               /\ store[WorkerKey(selfId[w])] = selfName[w]
               /\ selfName[w] \in ManifestNames(allWorkerInfos[w]))

\* a worker has claimed its id and then failed on its name; the manifest is
\* the one it read and its id key holds its name
C10_Witness ==
    \E w \in Members :
        /\ rpc[w] = "failed"
        /\ failure[w].kind = "NameCollision"
        /\ store[WorkerKey(selfId[w])] = selfName[w]
        /\ store[allWorkerInfosKey] = allWorkerInfos[w]
        /\ \E v \in Members : v # w /\ selfId[v] # selfId[w] /\ Returned(v)

\* the records of a manifest text, each as <<name, id>>
ManifestRecords(text) ==
    LET infos == splitString(text, <<",">>)
    IN  [i \in 1..Len(infos) |->
            LET workerInfoVec == splitString(infos[i], <<"-">>)
            IN  <<workerInfoVec[1], StoI(workerInfoVec[2]).val>>]

\* no two records of the text share a name, no two share an id
DistinctRecords(text) ==
    LET recs == ManifestRecords(text)
    IN  \A i, j \in 1..Len(recs) :
            i # j => recs[i][1] # recs[j][1] /\ recs[i][2] # recs[j][2]

JoinedCount == Cardinality({w \in Members : rpc[w] \in {"done", "failed"}})

\* the table of the first j joiners
TableOfFirst(j) ==
    [n \in {selfName[v] : v \in 1..j} |->
        selfId[CHOOSE v \in 1..j : selfName[v] = n]]

\* C17: joiners with pairwise distinct ids and names that call one after
\* another: no call fails; the first finds no manifest and writes its own
\* record alone; the j-th call returns the table of the first j joiners; and
\* after j calls the manifest is the text of j records, separated by commas,
\* each a name, a '-' and the decimal id, in the order of joining.
C17_JoinInOrder ==
    /\ \A w \in Members : rpc[w] # "failed"
    /\ rpc[1] = "write" =>
         /\ ~StoreHas(store, allWorkerInfosKey)
         /\ allWorkerInfos[1] = selfName[1] \o <<"-">> \o to_string(selfId[1])
    /\ \A j \in Members :
         Returned(j) =>
            /\ nameToId[j] = TableOfFirst(j)
            /\ Cardinality(DOMAIN nameToId[j]) = j
    /\ IF JoinedCount = 0
       THEN ~StoreHas(store, allWorkerInfosKey)
       ELSE /\ StoreHas(store, allWorkerInfosKey)
            /\ Len(splitString(store[allWorkerInfosKey], <<",">>)) = JoinedCount
            /\ ManifestRecords(store[allWorkerInfosKey]) =
                  [i \in 1..JoinedCount |-> <<selfName[i], selfId[i]>>]

\* worker "a" with id 6 joined first and worker "bc" with id 0 second: the
\* manifest reads a-6,bc-0 and the second table has both workers
C17_Witness ==
    /\ selfName[1] = <<"a">> /\ selfId[1] = 6
    /\ selfName[2] = <<"b", "c">> /\ selfId[2] = 0
    /\ Returned(1) /\ Returned(2)
    /\ store[allWorkerInfosKey] = <<"a", "-", "6", ",", "b", "c", "-", "0">>
    /\ DOMAIN nameToId[1] = {<<"a">>}
    /\ DOMAIN nameToId[2] = {<<"a">>, <<"b", "c">>}
    /\ nameToId[2][<<"a">>] = 6 /\ nameToId[2][<<"b", "c">>] = 0

\* C18: a call gets past the check on its compareSet only in a step that finds
\* its id key absent, so that of all the calls on one id, whatever their
\* names, only one gets past it.
C18_OnlyTheInstaller ==
    [][\A w \in Members :
          (rpc[w] = "start" /\ rpc'[w] = "set") =>
             /\ ~StoreHas(store, WorkerKey(selfId[w]))
             /\ \A v \in Members \ {w} :
                   selfId[v] = selfId[w] => ~PastClaim(v)]_vars

(***************************************************************************)
(* getNextKeyIds called by several threads of one process.  The callers    *)
(* are threads of process 1: they share its static barrierId, and bpc and  *)
(* keys hold the locals of each thread's call.  The increment and each of  *)
(* the three later loads of barrierId is an atomic step of its own.        *)
(***************************************************************************)
\* the process whose threads call
ThreadProcess == 1

Threads == 1..NumThreads

InitThreads ==
    /\ store = EmptyStore
    /\ worldSize = 1
    /\ callers = Threads
    /\ rounds = MaxCalls
    /\ InitLocals
    /\ NoRegistry

\* barrierId++
ThreadIncrement(t) ==
    /\ t \in callers
    /\ bpc[t] = "idle"
    /\ Len(returned[t]) < rounds
    /\ barrierId' = [barrierId EXCEPT ![ThreadProcess] = @ + 1]
    /\ keys' = [keys EXCEPT ![t] = NoKeys]
    /\ bpc' = [bpc EXCEPT ![t] = "formatProcessCount"]
    /\ UNCHANGED <<store, worldSize, callers, activeCalls, overlapped,
                   returned, expected, rounds, registryVars>>

\* processCountKey = fmt::format(..., storeKeyProcessCount, ..., barrierId)
ThreadFormatProcessCount(t) ==
    /\ bpc[t] = "formatProcessCount"
    /\ keys' = [keys EXCEPT ![t].processCountKey =
                   ProcessCountKeyOf(barrierId[ThreadProcess])]
    /\ bpc' = [bpc EXCEPT ![t] = "formatActiveCallCount"]
    /\ UNCHANGED <<store, worldSize, callers, barrierId, activeCalls,
                   overlapped, returned, expected, rounds, registryVars>>

\* activeCallCountKey = fmt::format(..., storeKeyActiveCallCount, ..., barrierId)
ThreadFormatActiveCallCount(t) ==
    /\ bpc[t] = "formatActiveCallCount"
    /\ keys' = [keys EXCEPT ![t].activeCallCountKey =
                   ActiveCallCountKeyOf(barrierId[ThreadProcess])]
    /\ bpc' = [bpc EXCEPT ![t] = "formatReady"]
    /\ UNCHANGED <<store, worldSize, callers, barrierId, activeCalls,
                   overlapped, returned, expected, rounds, registryVars>>

\* barrierKey = fmt::format(..., storeKeyReady, ..., barrierId)
ThreadFormatReady(t) ==
    /\ bpc[t] = "formatReady"
    /\ keys' = [keys EXCEPT ![t].readyKey = ReadyKeyOf(barrierId[ThreadProcess])]
    /\ bpc' = [bpc EXCEPT ![t] = "makeTuple"]
    /\ UNCHANGED <<store, worldSize, callers, barrierId, activeCalls,
                   overlapped, returned, expected, rounds, registryVars>>

\* return std::make_tuple(processCountKey, activeCallCountKey, barrierKey)
ThreadReturn(t) ==
    /\ bpc[t] = "makeTuple"
    /\ returned' = [returned EXCEPT ![t] = Append(@, keys[t])]
    /\ bpc' = [bpc EXCEPT ![t] = "idle"]
    /\ UNCHANGED <<store, worldSize, callers, barrierId, keys, activeCalls,
                   overlapped, expected, rounds, registryVars>>

NextThreads ==
    \E t \in Procs :
        \/ ThreadIncrement(t)
        \/ ThreadFormatProcessCount(t)
        \/ ThreadFormatActiveCallCount(t)
        \/ ThreadFormatReady(t)
        \/ ThreadReturn(t)

SpecThreads == InitThreads /\ [][NextThreads]_vars

\* the getNextKeyIds calls that have returned, each as <<thread, number>>
ReturnedCalls == {<<t, i>> \in Threads \X (1..MaxCalls) : i <= Len(returned[t])}

\* the epoch the ready key of a returned call carries
EpochOfCall(c) == EpochOfKey(returned[c[1]][c[2]].readyKey, storeKeyReady)

\* C20: every tuple that getNextKeyIds has returned to a thread carries one
\* epoch in its three keys, no two returned tuples carry the same epoch, and
\* when no call is under way the epochs handed out are 1, 2, ... up to the
\* value of the counter, none left out.
C20_ThreadsGetOwnEpochs ==
    /\ \A c \in ReturnedCalls :
         LET ks == returned[c[1]][c[2]]
         IN  /\ EpochOfKey(ks.processCountKey, storeKeyProcessCount) = EpochOfCall(c)
             /\ EpochOfKey(ks.activeCallCountKey, storeKeyActiveCallCount) = EpochOfCall(c)
             /\ EpochOfCall(c) \in 1..barrierId[ThreadProcess]
    /\ \A c, d \in ReturnedCalls : c # d => EpochOfCall(c) # EpochOfCall(d)
    /\ (\A t \in Threads : bpc[t] = "idle") =>
         {EpochOfCall(c) : c \in ReturnedCalls} = 1..barrierId[ThreadProcess]

=============================================================================
